---- MODULE Spec2Model ----
(***************************************************************************)
(* A model of loggy's web backend, lib/server_backend.py: the session      *)
(* store, the analyzer runner, the request handlers of the single-threaded *)
(* HTTPServer, and the pure helpers (strip_ansi, the device regex,         *)
(* search_logs).                                                           *)
(*                                                                         *)
(* Text is a sequence of one-character strings.  The control characters    *)
(* that a TLA+ string cannot hold are written by name: "ESC" is \x1b,      *)
(* "BEL" is \x07, "CR" is \r, "DEL" is \x7f.                               *)
(***************************************************************************)
EXTENDS Integers, Sequences, FiniteSets, TLC

\* ------------------------------------------------------------------ bounds

\* The number of values uuid4().hex[:12] ranges over in the model (16^12 in
\* the program).
NumSids == 2

\* The number of sessions created in one behaviour.
MaxCreates == 2

\* The number of analyze requests accepted in one behaviour.
MaxAnalyses == 2

\* The number of .parsed files of a parsed directory, and of lines of a file.
MaxFiles == 2

MaxLines == 2

\* ----------------------------------------------------------------- text

Letters ==
    {"a","b","c","d","e","f","g","h","i","j","k","l","m","n","o","p","q","r",
     "s","t","u","v","w","x","y","z","A","B","C","D","E","F","G","H","I","J",
     "K","L","M","N","O","P","Q","R","S","T","U","V","W","X","Y","Z"}

DigitChars == {"0","1","2","3","4","5","6","7","8","9"}

\* [0-9;] of the first pattern of strip_ansi.
CsiParams == DigitChars \cup {";"}

\* [\x00-\x08\x0b\x0c\x0e-\x1f\x7f]: the characters the second pattern of
\* strip_ansi removes.  \t, \n and \r (\x09, \x0a, \x0d) are not among them.
StrippedControls == {"NUL", "BEL", "ESC", "DEL"}

\* \s of Python's re on str, restricted to the characters of the model.
Whitespace == {" ", "\t", "\n", "CR"}

\* The position after the longest run of [0-9;] that starts at i.
RECURSIVE SkipParams(_, _)
SkipParams(s, i) ==
    IF i <= Len(s) /\ s[i] \in CsiParams THEN SkipParams(s, i + 1) ELSE i

\* The length of the match of \x1b\[[0-9;]*[a-zA-Z] at position i, or 0.
CsiMatchLen(s, i) ==
    IF i + 1 <= Len(s) /\ s[i] = "ESC" /\ s[i + 1] = "["
    THEN LET j == SkipParams(s, i + 2)
         IN  IF j <= Len(s) /\ s[j] \in Letters THEN j - i + 1 ELSE 0
    ELSE 0

\* re.sub(r'\x1b\[[0-9;]*[a-zA-Z]', '', s) from position i on.
RECURSIVE StripCsiFrom(_, _)
StripCsiFrom(s, i) ==
    IF i > Len(s) THEN <<>>
    ELSE LET n == CsiMatchLen(s, i)
         IN  IF n > 0 THEN StripCsiFrom(s, i + n)
             ELSE <<s[i]>> \o StripCsiFrom(s, i + 1)

\* re.sub(r'[\x00-\x08\x0b\x0c\x0e-\x1f\x7f]', '', s)
RECURSIVE StripControls(_)
StripControls(s) ==
    IF s = <<>> THEN <<>>
    ELSE IF Head(s) \in StrippedControls THEN StripControls(Tail(s))
         ELSE <<Head(s)>> \o StripControls(Tail(s))

strip_ansi(s) == StripControls(StripCsiFrom(s, 1))

DeviceWord == <<"D", "e", "v", "i", "c", "e">>

\* The first position >= k of a character that is not whitespace, or
\* Len(s) + 1.
RECURSIVE SkipSpace(_, _)
SkipSpace(s, k) ==
    IF k <= Len(s) /\ s[k] \in Whitespace THEN SkipSpace(s, k + 1) ELSE k

\* The last position of the run of non-whitespace characters starting at k.
RECURSIVE EndOfToken(_, _)
EndOfToken(s, k) ==
    IF k + 1 <= Len(s) /\ s[k + 1] \notin Whitespace
    THEN EndOfToken(s, k + 1) ELSE k

\* Whether 'Device.*?:\s*(\S+)' matches with "Device" at i and the ':' at j:
\* '.' does not match a newline, and \S+ needs one character.
DeviceMatchAt(s, i, j) ==
    /\ i + 5 <= Len(s)
    /\ SubSeq(s, i, i + 5) = DeviceWord
    /\ j >= i + 6 /\ j <= Len(s)
    /\ s[j] = ":"
    /\ \A k \in (i + 6)..(j - 1) : s[k] # "\n"
    /\ SkipSpace(s, j + 1) <= Len(s)

\* re.search(r'Device.*?:\s*(\S+)', s): group 1 of the leftmost match, the
\* lazy '.*?' taking the first ':' that lets the rest match; <<>> when there
\* is no match (group 1 is never empty).
DeviceSearch(s) ==
    LET hits == {p \in (1..Len(s)) \X (1..Len(s)) : DeviceMatchAt(s, p[1], p[2])}
    IN  IF hits = {} THEN <<>>
        ELSE LET i == CHOOSE a \in {p[1] : p \in hits} :
                          \A b \in {p[1] : p \in hits} : a <= b
                 j == CHOOSE a \in {p[2] : p \in {q \in hits : q[1] = i}} :
                          \A b \in {p[2] : p \in {q \in hits : q[1] = i}} : a <= b
                 k == SkipSpace(s, j + 1)
             IN  SubSeq(s, k, EndOfToken(s, k))

\* The decimal digits of a natural number, as "{}".format(n) writes them.
RECURSIVE Decimal(_)
Decimal(n) ==
    LET d == CHOOSE c \in DigitChars : c = ToString(n % 10)
    IN  IF n < 10 THEN <<d>> ELSE Decimal(n \div 10) \o <<d>>


\* ------------------------------------------------------- the session store

\* The values of uuid4().hex[:12]: 48 of the 122 random bits of a uuid4.
SidSpace == 1..NumSids

\* The session_id of a request body that names no session of SidSpace.
NoSid == 0

\* The report file the analyzer may write into its -o directory.
ReportNames == {"analysis.md"}

VARIABLES
    sessions,   \* the module-level dict: sid -> session record
    reports,    \* the files of SESSION_DIR/<sid>/reports, for every sid
    created,    \* how many times new_session has returned
    analyses,   \* how many analyze requests have been accepted
    pc,         \* where the server's only thread is: "idle", or inside a
                \* handler that runs the analyzer
    cur,        \* the request that handler serves
    result,     \* what run_analyzer returned to it
    child,      \* the analyzer processes alive
    resp,       \* the response the last request got
    last,       \* per session, the analysis last completed on it (a history variable)
    call,       \* the arguments of a call of one of the pure functions
    ret         \* what that call returned

serverVars == <<sessions, reports, created, analyses, pc, cur, result, child, resp, last>>

vars == <<sessions, reports, created, analyses, pc, cur, result, child, resp, last,
          call, ret>>

WorkDir(sid) == <<"sessions", sid>>

ReportsDir(sid) == <<"sessions", sid, "reports">>

\* The record new_session stores under sid.
NewSessionRecord(sid, input_path) ==
    [id |-> sid, input_path |-> input_path,
     work_dir |-> WorkDir(sid), reports_dir |-> ReportsDir(sid),
     state |-> "loaded", device_id |-> <<>>, analysis_mode |-> "",
     stdout |-> <<>>, stderr |-> <<>>]

\* sessions[sid] = {...}: an entry already stored under sid is replaced.
new_session(store, sid, input_path) ==
    (sid :> NewSessionRecord(sid, input_path)) @@ store

\* -------------------------------------------------------------- run_analyzer

TimeoutExitCode == 124

LaunchFailExitCode == 1

AnalyzeTimeout == 180

CheckTimeout == 15

CompareTimeout == 180

FleetTimeout == 300

\* "Timeout after {}s".format(timeout)
TimeoutMsg(timeout) ==
    <<"T","i","m","e","o","u","t"," ","a","f","t","e","r"," ">>
        \o Decimal(timeout) \o <<"s">>

\* Mutant: a timeout reported as an ordinary failure, exit code 1.
TimeoutResultAsFailure(timeout) ==
    [rc |-> LaunchFailExitCode, out |-> <<>>, err |-> TimeoutMsg(timeout), how |-> "timeout"]

\* except subprocess.TimeoutExpired
TimeoutResult(timeout) ==
    [rc |-> TimeoutExitCode, out |-> <<>>, err |-> TimeoutMsg(timeout), how |-> "timeout"]

\* except Exception as e: str(e)
LaunchFailResult(text) ==
    [rc |-> LaunchFailExitCode, out |-> <<>>, err |-> text, how |-> "launchfail"]

\* return p.returncode, stdout, stderr
ExitResult(rc, out, err) ==
    [rc |-> rc, out |-> out, err |-> err, how |-> "exit"]

NoResult == [rc |-> 0, out |-> <<>>, err |-> <<>>, how |-> "none"]

\* str(e) of the OSError Popen raises when bash cannot be started.
LaunchErrors == {<<"N","o"," ","b","a","s","h">>}

\* What the analyzer, an external program, writes and returns when it runs to
\* its end: an exit code in 0..255, stdout and stderr.
OutDevice ==
    <<"ESC","[","1","m">> \o DeviceWord \o <<" ","I","D",":"," ","A","7","ESC","[","0","m","\n">>

OutPlain == <<"d","o","n","e","\n">>

ErrText == <<"f","a","i","l","BEL","CR">>

AnalyzerExits ==
    { [rc |-> 0, out |-> OutDevice, err |-> <<>>],
      [rc |-> 2, out |-> OutPlain, err |-> ErrText] }

\* ------------------------------------------------------------- the requests

\* body.get("mode", "standard"): the model has the default mode.
Modes == {"standard"}

\* The file a multipart upload is stored in, UPLOAD_DIR/<hex8>_<name>.  Paths
\* are opaque to the server; the model has one input artifact.
UploadDest == "uploads/1f0e3a9c_logs.zip"

\* The paths os.path.exists finds: the artifact an upload stored.
ExistingPaths == {UploadDest}

MissingPath == "/data/gone.zip"

\* What fields.get("file") is after parse_multipart: no such field, a field
\* without a filename parameter, one with an empty one, one with a name.
FileInfos == {"absent", "no-filename", "empty-filename", "named"}

\* The JSON bodies of POST /api/upload: not JSON at all, no "path" key, a
\* path that does not exist, a path that exists.
UploadBodies == {"invalid", "no-path", "missing-path", "existing-path"}

BodyPath(body) ==
    CASE body = "no-path" -> ""
      [] body = "missing-path" -> MissingPath
      [] body = "existing-path" -> CHOOSE p \in ExistingPaths : TRUE

\* Mutant: the test without os.path.exists.
UploadPathRefusedIfEmpty(p) == p = ""

\* if not p or not os.path.exists(p): the request is refused.
UploadPathRefused(p) == p = "" \/ p \notin ExistingPaths

\* if fileinfo and fileinfo.get("filename"): the upload is accepted.
FileAccepted(fileinfo) == fileinfo = "named"

NoReq == [route |-> "", sid |-> NoSid, arg |-> ""]

Req(route, sid, arg) == [route |-> route, sid |-> sid, arg |-> arg]

\* A response: format is "json", "file", or "none" when the handler raised and
\* socketserver closed the connection without one.
Response(req, code, format) ==
    [req |-> req, code |-> code, format |-> format, fault |-> FALSE,
     ok |-> FALSE, exit_code |-> 0, output |-> <<>>, errors |-> <<>>, how |-> ""]

\* self._json(data, code)
Json(req, code) == Response(req, code, "json")

\* What a response records of a GET request: the max parameter of a search,
\* and nothing else.
GetReq(max) == Req("GET", NoSid, max)

\* An exception leaves do_GET/do_POST: BaseServer.handle_error logs it and
\* the connection is shut down; nothing has been sent.
Raised(req) == [Response(req, 0, "none") EXCEPT !.fault = TRUE]

Pending(req) == Response(req, 0, "pending")

\* No analysis of the session has completed.  n counts the completed ones,
\* up to two.
NoAnalysis ==
    [n |-> 0, mode |-> "", stdout |-> <<>>, stderr |-> <<>>,
     device_id |-> <<>>, state |-> "loaded"]

NoCur == [kind |-> "", sid |-> NoSid, mode |-> "", timeout |-> 0, req |-> NoReq]

\* The server alone: no pure function is called on its own.
NoCall == [fn |-> ""]

NotReturned == [done |-> FALSE]

ServerInit ==
    /\ sessions = [s \in {} |-> s]
    /\ reports = [s \in SidSpace |-> {}]
    /\ created = 0
    /\ analyses = 0
    /\ pc = "idle"
    /\ cur = NoCur
    /\ result = NoResult
    /\ child = 0
    /\ resp = Response(NoReq, 0, "")
    /\ last = [s \in SidSpace |-> NoAnalysis]

Init ==
    /\ ServerInit
    /\ call = NoCall
    /\ ret = NotReturned


\* The handler is left: the server's thread is back in serve_forever.
Idle ==
    /\ pc' = "idle"
    /\ cur' = NoCur
    /\ result' = NoResult

\* --------------------------------------------------------- POST /api/upload

\* The multipart branch (lines 320-331).  The decoded "file" field is the
\* input; the uploaded bytes go to a file of UPLOAD_DIR that no claim reads.
UploadMultipart(fileinfo) ==
    LET req == Req("upload", NoSid, fileinfo)
    IN  /\ pc = "idle"
        /\ IF FileAccepted(fileinfo)
           THEN /\ created < MaxCreates
                /\ \E sid \in SidSpace :
                      /\ sessions' = new_session(sessions, sid, UploadDest)
                      /\ last' = [last EXCEPT ![sid] = NoAnalysis]
                      /\ resp' = [Json([req EXCEPT !.sid = sid], 200) EXCEPT !.ok = TRUE]
                /\ created' = created + 1
           ELSE /\ resp' = Json(req, 400)
                /\ UNCHANGED <<sessions, created, last>>
        /\ UNCHANGED <<reports, analyses, pc, cur, result, child, call, ret>>

\* The JSON branch (lines 332-338).
UploadJson(body) ==
    LET req == Req("upload", NoSid, body)
    IN  /\ pc = "idle"
        /\ IF body = "invalid"
           THEN /\ resp' = Raised(req)
                /\ UNCHANGED <<sessions, created, last>>
           ELSE IF UploadPathRefused(BodyPath(body))
           THEN /\ resp' = Json(req, 400)
                /\ UNCHANGED <<sessions, created, last>>
           ELSE /\ created < MaxCreates
                /\ \E sid \in SidSpace :
                      /\ sessions' = new_session(sessions, sid, BodyPath(body))
                      /\ last' = [last EXCEPT ![sid] = NoAnalysis]
                      /\ resp' = [Json([req EXCEPT !.sid = sid], 200) EXCEPT !.ok = TRUE]
                /\ created' = created + 1
        /\ UNCHANGED <<reports, analyses, pc, cur, result, child, call, ret>>

\* -------------------------------------------------------- POST /api/analyze

\* json.loads raises on a body that is not JSON (line 341).
AnalyzeInvalid ==
    /\ pc = "idle"
    /\ resp' = Raised(Req("analyze", NoSid, "invalid"))
    /\ UNCHANGED <<sessions, reports, created, analyses, pc, cur, result, child, last, call, ret>>

\* if sid not in sessions: 404 (lines 347-348).
AnalyzeNotFound(sid) ==
    /\ pc = "idle"
    /\ sid \notin DOMAIN sessions
    /\ resp' = Json(Req("analyze", sid, ""), 404)
    /\ UNCHANGED <<sessions, reports, created, analyses, pc, cur, result, child, last, call, ret>>

\* Lines 349-356, up to the call of run_analyzer.  The argument list (mode,
\* -o reports_dir, --web/--mail/--tickets, input_path) goes to the analyzer
\* and touches no state.
AnalyzeBegin(sid, mode) ==
    /\ pc = "idle"
    /\ sid \in DOMAIN sessions
    /\ analyses < MaxAnalyses
    /\ analyses' = analyses + 1
    /\ sessions' = [sessions EXCEPT ![sid].state = "analyzing",
                                    ![sid].analysis_mode = mode]
    /\ pc' = "launch"
    /\ cur' = [kind |-> "analyze", sid |-> sid, mode |-> mode,
               timeout |-> AnalyzeTimeout, req |-> Req("analyze", sid, mode)]
    /\ resp' = Pending(Req("analyze", sid, mode))
    /\ UNCHANGED <<reports, created, result, child, last, call, ret>>

\* Lines 358-362: the captured output is stored.
AnalyzeStore ==
    /\ pc = "returned"
    /\ cur.kind = "analyze"
    /\ \E out \in {strip_ansi(result.out)}, err \in {strip_ansi(result.err)} :
          \E dev \in {DeviceSearch(out)} :
             sessions' = [sessions EXCEPT
                 ![cur.sid].stdout = out,
                 ![cur.sid].stderr = err,
                 ![cur.sid].state = IF result.rc = 0 THEN "done" ELSE "error",
                 ![cur.sid].device_id = IF dev # <<>> THEN dev ELSE @]
    /\ pc' = "respond"
    /\ UNCHANGED <<reports, created, analyses, cur, result, child, resp, last, call, ret>>

\* Lines 363-367: the reports directory is listed and the response sent.
AnalyzeRespond ==
    /\ pc = "respond"
    /\ cur.kind = "analyze"
    /\ \E out \in {strip_ansi(result.out)}, err \in {strip_ansi(result.err)} :
          \E ok \in {reports[cur.sid] # {}}, dev \in {DeviceSearch(out)} :
             \E state \in {IF ok THEN "done" ELSE sessions[cur.sid].state} :
                /\ sessions' = [sessions EXCEPT ![cur.sid].state = state]
                /\ resp' = [Json(cur.req, 200) EXCEPT
                               !.ok = ok, !.exit_code = result.rc,
                               !.output = out, !.errors = err, !.how = result.how]
                /\ last' = [last EXCEPT ![cur.sid] =
                               [n |-> IF @.n < 2 THEN @.n + 1 ELSE 2,
                                mode |-> cur.mode, stdout |-> out, stderr |-> err,
                                device_id |-> dev, state |-> state]]
    /\ Idle
    /\ UNCHANGED <<reports, created, analyses, child, call, ret>>

\* ---------------------------------- /api/check, /api/compare, /api/fleet

\* GET /api/check (lines 271-273), up to the call of run_analyzer.
CheckBegin ==
    /\ pc = "idle"
    /\ pc' = "launch"
    /\ cur' = [kind |-> "check", sid |-> NoSid, mode |-> "",
               timeout |-> CheckTimeout, req |-> Req("check", NoSid, "")]
    /\ resp' = Pending(Req("check", NoSid, ""))
    /\ UNCHANGED <<sessions, reports, created, analyses, result, child, last, call, ret>>

CheckRespond ==
    /\ pc = "returned"
    /\ cur.kind = "check"
    /\ resp' = [Json(cur.req, 200) EXCEPT
                   !.ok = (result.rc = 0),
                   !.output = strip_ansi(result.out \o result.err),
                   !.how = result.how]
    /\ Idle
    /\ UNCHANGED <<sessions, reports, created, analyses, child, last, call, ret>>

\* POST /api/compare (lines 369-378): body is "invalid" (not JSON), "missing"
\* (no baseline or no target) or "ok".  The output directory is a new
\* directory outside every session.
CompareBegin(body) ==
    LET req == Req("compare", NoSid, body)
    IN  /\ pc = "idle"
        /\ IF body = "invalid"
           THEN resp' = Raised(req) /\ UNCHANGED <<pc, cur>>
           ELSE IF body = "missing"
           THEN resp' = Json(req, 400) /\ UNCHANGED <<pc, cur>>
           ELSE /\ pc' = "launch"
                /\ cur' = [kind |-> "compare", sid |-> NoSid, mode |-> "",
                           timeout |-> CompareTimeout, req |-> req]
                /\ resp' = Pending(req)
        /\ UNCHANGED <<sessions, reports, created, analyses, result, child, last, call, ret>>

\* POST /api/fleet (lines 384-391): body is "invalid", "missing" (no
\* directory, or not a directory) or "ok".
FleetBegin(body) ==
    LET req == Req("fleet", NoSid, body)
    IN  /\ pc = "idle"
        /\ IF body = "invalid"
           THEN resp' = Raised(req) /\ UNCHANGED <<pc, cur>>
           ELSE IF body = "missing"
           THEN resp' = Json(req, 400) /\ UNCHANGED <<pc, cur>>
           ELSE /\ pc' = "launch"
                /\ cur' = [kind |-> "fleet", sid |-> NoSid, mode |-> "",
                           timeout |-> FleetTimeout, req |-> req]
                /\ resp' = Pending(req)
        /\ UNCHANGED <<sessions, reports, created, analyses, result, child, last, call, ret>>

\* Lines 379-382 and 392-395.
BatchRespond ==
    /\ pc = "returned"
    /\ cur.kind \in {"compare", "fleet"}
    /\ resp' = [Json(cur.req, 200) EXCEPT
                   !.ok = (result.rc = 0),
                   !.output = strip_ansi(result.out),
                   !.errors = strip_ansi(result.err),
                   !.how = result.how]
    /\ Idle
    /\ UNCHANGED <<sessions, reports, created, analyses, child, last, call, ret>>

\* ------------------------------------------------------------- run_analyzer

\* subprocess.run starts bash (line 79).
Launch ==
    /\ pc = "launch"
    /\ child' = child + 1
    /\ pc' = "running"
    /\ UNCHANGED <<sessions, reports, created, analyses, cur, result, resp, last, call, ret>>

\* Popen raises (lines 86-87): there is no child.
LaunchFail ==
    /\ pc = "launch"
    /\ \E text \in LaunchErrors : result' = LaunchFailResult(text)
    /\ pc' = "returned"
    /\ UNCHANGED <<sessions, reports, created, analyses, cur, child, resp, last, call, ret>>

\* The analyzer writes a report into its -o directory; the directories of
\* compare and fleet runs belong to no session and are not kept.
ChildWriteReport ==
    /\ pc = "running"
    /\ cur.kind = "analyze"
    /\ \E name \in ReportNames :
          /\ name \notin reports[cur.sid]
          /\ reports' = [reports EXCEPT ![cur.sid] = @ \cup {name}]
    /\ UNCHANGED <<sessions, created, analyses, pc, cur, result, child, resp, last, call, ret>>

\* The analyzer exits within the timeout (lines 81-83).
ChildExit ==
    /\ pc = "running"
    /\ \E o \in AnalyzerExits : result' = ExitResult(o.rc, o.out, o.err)
    /\ child' = child - 1
    /\ pc' = "returned"
    /\ UNCHANGED <<sessions, reports, created, analyses, cur, resp, last, call, ret>>

\* Mutant: no timeout, run_analyzer waits for the child however long it runs.
TimeoutNever == FALSE /\ UNCHANGED vars

\* The timeout expires first: subprocess.run kills the child, waits for it
\* and raises TimeoutExpired (lines 84-85).
Timeout ==
    /\ pc = "running"
    /\ result' = TimeoutResult(cur.timeout)
    /\ child' = child - 1
    /\ pc' = "returned"
    /\ UNCHANGED <<sessions, reports, created, analyses, cur, resp, last, call, ret>>

\* ------------------------------------------------------------------- do_GET

\* Mutant: a GET that prunes the store, dropping the sessions in state error.
GetPlainPruning(route) ==
    /\ pc = "idle"
    /\ resp' = Json(GetReq(""), 200)
    /\ sessions' = [sid \in {x \in DOMAIN sessions : sessions[x].state # "error"} |->
                       sessions[sid]]
    /\ UNCHANGED <<reports, created, analyses, pc, cur, result, child, last, call, ret>>

\* The routes that read nothing of a session: "/" (the frontend file, 404
\* when it is missing), /api/status, /api/sessions, /api/signatures, and
\* any other path.
GetPlain(route) ==
    /\ pc = "idle"
    /\ resp' \in
         CASE route = "index" -> {Response(GetReq(""), 200, "file"), Json(GetReq(""), 404)}
           [] route \in {"status", "sessions", "signatures"} -> {Json(GetReq(""), 200)}
           [] OTHER -> {Json(GetReq(""), 404)}
    /\ UNCHANGED <<sessions, reports, created, analyses, pc, cur, result, child, last, call, ret>>

PlainRoutes == {"index", "status", "sessions", "signatures", "unknown"}

SessionActions == {"info", "results", "search", "components", "report", "bogus"}

\* The query parameter a session action reads: max of search (a number, or
\* text int() rejects), file of report ("" when absent, else a file name).
ActionParams(action) ==
    CASE action = "search" -> {"10", "ten"}
      [] action = "report" -> {"", "x.md"} \cup ReportNames
      [] OTHER -> {""}

\* int(params.get("max", 50)) raises ValueError (line 298).
MaxRejected(param) == param # "10"

\* GET /api/session/<sid>/<action> (lines 276-309).
GetSession(sid, action, param) ==
    LET req == GetReq(IF action = "search" THEN param ELSE "")
    IN  /\ pc = "idle"
        /\ resp' =
             IF sid \notin DOMAIN sessions THEN Json(req, 404)
             ELSE CASE action \in {"info", "results", "components"} -> Json(req, 200)
                    [] action = "search" ->
                         IF MaxRejected(param) THEN Raised(req) ELSE Json(req, 200)
                    [] action = "report" ->
                         IF param = "" THEN Json(req, 400)
                         ELSE IF param \in reports[sid] THEN Response(req, 200, "file")
                         ELSE Json(req, 404)
                    [] OTHER -> Json(req, 404)
        /\ UNCHANGED <<sessions, reports, created, analyses, pc, cur, result, child, last, call, ret>>

\* ------------------------------------------------------------ the server

Next ==
    \/ \E f \in FileInfos : UploadMultipart(f)
    \/ \E b \in UploadBodies : UploadJson(b)
    \/ AnalyzeInvalid
    \/ \E sid \in SidSpace \cup {NoSid} : AnalyzeNotFound(sid)
    \/ \E sid \in SidSpace, mode \in Modes : AnalyzeBegin(sid, mode)
    \/ AnalyzeStore
    \/ AnalyzeRespond
    \/ CheckBegin
    \/ CheckRespond
    \/ \E b \in {"invalid", "missing", "ok"} : CompareBegin(b)
    \/ \E b \in {"invalid", "missing", "ok"} : FleetBegin(b)
    \/ BatchRespond
    \/ Launch
    \/ LaunchFail
    \/ ChildWriteReport
    \/ ChildExit
    \/ Timeout
    \/ \E r \in PlainRoutes : GetPlain(r)
    \/ \E sid \in SidSpace \cup {NoSid}, a \in SessionActions :
          \E p \in ActionParams(a) : GetSession(sid, a, p)

Spec == Init /\ [][Next]_vars

\* The server with the progress its code gives: the thread of the handler
\* runs on, so subprocess.run starts the child or raises, the handler stores
\* what run_analyzer returned and answers; and the timeout run_analyzer is
\* called with expires if the child is still running.  Nothing makes the
\* child exit by itself.
SpecLive ==
    /\ Spec
    /\ WF_vars(Launch \/ LaunchFail)
    /\ WF_vars(Timeout)
    /\ WF_vars(AnalyzeStore)
    /\ WF_vars(AnalyzeRespond)


\* ------------------------------------------------------------- search_logs

\* line[:300]
LineLimit == 300

\* The lines of the parsed logs: one with the |E| marker, one without.
LineTexts == { <<"|", "E", "|", "a">>, <<"b">> }

\* A file name is <<stem, suffix>>; names order by stem.
ParsedNames == {<<i, "parsed">> : i \in 1..MaxFiles}

OtherName == <<1, "log">>

FileContents == UNION {[1..n -> LineTexts] : n \in 0..MaxLines}

\* The parsed subdirectory of a session's working directory: absent, or a
\* directory of .parsed files that may hold a file of another suffix.
ParsedDirs ==
    {[exists |-> FALSE, files |-> <<>>]} \cup
    {[exists |-> TRUE, files |-> d] :
        d \in {f \in UNION {[names -> FileContents] :
                            names \in SUBSET (ParsedNames \cup {OtherName})} :
                  OtherName \in DOMAIN f => f[OtherName] = <<<<"b">>>>}}

\* str.lower() and str.upper() on the letters of the model.
LowerChar(c) ==
    CASE c = "A" -> "a" [] c = "B" -> "b" [] c = "E" -> "e" [] OTHER -> c

UpperChar(c) ==
    CASE c = "a" -> "A" [] c = "b" -> "B" [] c = "e" -> "E" [] OTHER -> c

LowerSeq(s) == [i \in 1..Len(s) |-> LowerChar(s[i])]

\* t in s
Contains(s, t) ==
    \E i \in 1..(Len(s) - Len(t) + 1) : SubSeq(s, i, i + Len(t) - 1) = t

\* grep -i -n pattern f: the matching lines of the file, each behind its line
\* number and a colon.  The patterns of the model are literal text; the empty
\* pattern matches every line.
RECURSIVE GrepFrom(_, _, _)
GrepFrom(pattern, lines, n) ==
    IF n > Len(lines) THEN <<>>
    ELSE IF Contains(LowerSeq(lines[n]), LowerSeq(pattern))
         THEN <<Decimal(n) \o <<":">> \o lines[n]>> \o GrepFrom(pattern, lines, n + 1)
         ELSE GrepFrom(pattern, lines, n + 1)

\* sev_map.get(severity.upper(), "") when severity is not empty.
SevStr(severity) ==
    IF severity # "" /\ UpperChar(severity) \in {"E", "W", "I", "C", "N"}
    THEN <<"|", UpperChar(severity), "|">>
    ELSE <<>>

\* The two filters of lines 142-145.
PassesFilters(line, q) ==
    /\ ~(q.severity # "" /\ SevStr(q.severity) # <<>> /\ ~Contains(line, SevStr(q.severity)))
    /\ ~(q.component # <<>> /\ ~Contains(LowerSeq(line), LowerSeq(q.component)))

\* Mutant: the cap tested with > for >=.
CapReachedLate(n, max_results) == n > max_results

\* if len(results) >= max_results: return results
CapReached(n, max_results) == n >= max_results

\* The loop over the lines grep printed for one file (lines 139-148): the
\* hits so far and whether the cap ended the search.
RECURSIVE ScanLines(_, _, _, _, _)
ScanLines(lines, i, name, q, acc) ==
    IF i > Len(lines) THEN [hits |-> acc, full |-> FALSE]
    ELSE IF ~PassesFilters(lines[i], q) THEN ScanLines(lines, i + 1, name, q, acc)
    ELSE LET hit == [file |-> name,
                     line |-> SubSeq(lines[i], 1,
                                     IF Len(lines[i]) < LineLimit THEN Len(lines[i])
                                     ELSE LineLimit)]
             acc2 == Append(acc, hit)
         IN  IF CapReached(Len(acc2), q.max) THEN [hits |-> acc2, full |-> TRUE]
             ELSE ScanLines(lines, i + 1, name, q, acc2)

\* glob.glob(os.path.join(parsed_dir, "*.parsed"))
GlobParsed(files) == {name \in DOMAIN files : name[2] = "parsed"}

\* sorted(...) of a set of names.
RECURSIVE SortedNames(_)
SortedNames(names) ==
    IF names = {} THEN <<>>
    ELSE LET first == CHOOSE a \in names : \A b \in names : a[1] <= b[1]
         IN  <<first>> \o SortedNames(names \ {first})

\* The loop over the files (lines 135-151).  failing holds the files whose
\* grep raises (it runs under timeout=10): the bare except of lines 149-150
\* drops such a file and the loop goes on with the next one.
RECURSIVE ScanFiles(_, _, _, _, _, _)
ScanFiles(names, k, files, failing, q, acc) ==
    IF k > Len(names) THEN acc
    ELSE IF names[k] \in failing THEN ScanFiles(names, k + 1, files, failing, q, acc)
    ELSE LET r == ScanLines(GrepFrom(q.pattern, files[names[k]], 1), 1, names[k], q, acc)
         IN  IF r.full THEN r.hits ELSE ScanFiles(names, k + 1, files, failing, q, r.hits)

\* Mutant: no hit at all while the logs are not parsed.
NotParsedHitsNone == <<>>

\* [{"line": "Logs not parsed yet - run analysis first"}]
NotParsedHits == <<[line |-> <<"Logs not parsed yet - run analysis first">>]>>

\* search_logs(sid, pattern, severity, component, after, before, max_results):
\* known is whether sessions holds sid, parsed is the parsed directory of its
\* working directory, failing the files whose grep raises; after and before
\* are not read.
search_logs(known, parsed, failing, q) ==
    IF ~known THEN <<>>
    ELSE IF ~parsed.exists THEN NotParsedHits
    ELSE ScanFiles(SortedNames(GlobParsed(parsed.files)), 1, parsed.files, failing, q, <<>>)

\* The queries: q and component as text, severity as the letter given, and
\* max as int(params.get("max", 50)) accepts it.
Queries ==
    [pattern : {<<>>, <<"A">>}, severity : {"", "e"}, component : {<<>>, <<"B">>},
     max : {-1, 0, 1, 2, 50}]

\* The greps that raise in one search: none, or that of one .parsed file.
GrepFailures(parsed) ==
    {{}} \cup {{name} : name \in GlobParsed(parsed.files)}

SearchCall(known, parsed, failing, q) ==
    [fn |-> "search_logs", known |-> known, parsed |-> parsed, failing |-> failing, q |-> q]

InitSearch ==
    /\ ServerInit
    /\ \E q \in Queries :
          \/ \E parsed \in ParsedDirs : \E failing \in GrepFailures(parsed) :
                call = SearchCall(TRUE, parsed, failing, q)
          \/ call = SearchCall(FALSE, [exists |-> FALSE, files |-> <<>>], {}, q)
    /\ ret = NotReturned

RunSearch ==
    /\ call.fn = "search_logs"
    /\ ~ret.done
    /\ ret' = [done |-> TRUE, value |-> search_logs(call.known, call.parsed, call.failing, call.q)]
    /\ UNCHANGED <<serverVars, call>>

NextSearch == RunSearch

SpecSearch == InitSearch /\ [][NextSearch]_vars

\* -------------------------------------------------- parse_session_results

\* The number of pieces a stdout of the model is put together from.
MaxPieces == 2

\* CRITICAL|HIGH|MEDIUM|LOW, in the order of the alternation.
SeverityWords ==
    << <<"C", "R", "I", "T", "I", "C", "A", "L">>,
       <<"H", "I", "G", "H">>,
       <<"M", "E", "D", "I", "U", "M">>,
       <<"L", "O", "W">> >>

\* Whether the text w stands at position i of s.
At(s, i, w) == i + Len(w) - 1 <= Len(s) /\ SubSeq(s, i, i + Len(w) - 1) = w

\* (CRITICAL|HIGH|MEDIUM|LOW) at position i: the number of the first
\* alternative that stands there, or 0.
SeverityAt(s, i) ==
    IF \E n \in 1..Len(SeverityWords) : At(s, i, SeverityWords[n])
    THEN CHOOSE n \in 1..Len(SeverityWords) :
            /\ At(s, i, SeverityWords[n])
            /\ \A k \in 1..(n - 1) : ~At(s, i, SeverityWords[k])
    ELSE 0

\* The position after the longest run of \d that starts at i.
RECURSIVE SkipDigits(_, _)
SkipDigits(s, i) ==
    IF i <= Len(s) /\ s[i] \in DigitChars THEN SkipDigits(s, i + 1) ELSE i

\* The position of the first newline at or after i, or Len(s) + 1.
RECURSIVE EndOfLine(_, _)
EndOfLine(s, i) ==
    IF i <= Len(s) /\ s[i] # "\n" THEN EndOfLine(s, i + 1) ELSE i

\* str.strip()
RECURSIVE Strip(_)
Strip(t) ==
    IF t = <<>> THEN <<>>
    ELSE IF Head(t) \in Whitespace THEN Strip(Tail(t))
    ELSE IF t[Len(t)] \in Whitespace THEN Strip(SubSeq(t, 1, Len(t) - 1))
    ELSE t

\* The match of '\s+(.+?)(?:\n|$)' from position w: \s+ takes the longest
\* run of whitespace and gives characters back until the title has a first
\* character, which may be any but a newline; the lazy title ends at the
\* first newline, which the match takes in, or at the end of the text.
TitleMatch(s, w) ==
    LET p == SkipSpace(s, w)
        starts == {e \in (w + 1)..p : e <= Len(s) /\ s[e] # "\n"}
    IN  IF starts = {} THEN [ok |-> FALSE]
        ELSE LET e == CHOOSE a \in starts : \A b \in starts : b <= a
                 eol == EndOfLine(s, e)
             IN  [ok |-> TRUE, title |-> SubSeq(s, e, eol - 1),
                  next |-> IF eol <= Len(s) THEN eol + 1 ELSE eol]

\* The match at position i of the pattern of line 106 (form "primary",
\* '#\d+\s+(CRITICAL|HIGH|MEDIUM|LOW)\s+(.+?)(?:\n|$)') or of line 109 (form
\* "bracketed", '\[(CRITICAL|HIGH|MEDIUM|LOW)\]\s+(.+?)(?:\n|$)').
IssueMatchAt(form, s, i) ==
    IF form = "primary"
    THEN IF i <= Len(s) /\ s[i] = "#"
         THEN LET j == SkipDigits(s, i + 1)
                  k == SkipSpace(s, j)
                  n == SeverityAt(s, k)
              IN  IF j > i + 1 /\ k > j /\ n > 0
                  THEN [sev |-> n] @@ TitleMatch(s, k + Len(SeverityWords[n]))
                  ELSE [ok |-> FALSE]
         ELSE [ok |-> FALSE]
    ELSE IF i <= Len(s) /\ s[i] = "["
         THEN LET n == SeverityAt(s, i + 1)
                  c == i + 1 + (IF n > 0 THEN Len(SeverityWords[n]) ELSE 0)
              IN  IF n > 0 /\ c <= Len(s) /\ s[c] = "]"
                  THEN [sev |-> n] @@ TitleMatch(s, c + 1)
                  ELSE [ok |-> FALSE]
         ELSE [ok |-> FALSE]

\* re.finditer over s from position i, each match as the dictionary the
\* loops of lines 106-107 and 109-110 append.
RECURSIVE FindIssues(_, _, _)
FindIssues(form, s, i) ==
    IF i > Len(s) THEN <<>>
    ELSE LET m == IssueMatchAt(form, s, i)
         IN  IF m.ok
             THEN <<[severity |-> SeverityWords[m.sev], title |-> Strip(m.title)]>>
                  \o FindIssues(form, s, m.next)
             ELSE FindIssues(form, s, i + 1)

\* Mutant: the second loop runs whatever the first one found.
IssuesEmptyAlways(issues) == TRUE

\* if not result["issues"]
IssuesEmpty(issues) == issues = <<>>

\* Lines 106-110: result["issues"] after both loops.
ExtractIssues(stdout) ==
    LET first == <<>> \o FindIssues("primary", stdout, 1)
    IN  IF IssuesEmpty(first) THEN first \o FindIssues("bracketed", stdout, 1)
        ELSE first

HealthWord == <<"H", "e", "a", "l", "t", "h", " ", "S", "c", "o", "r", "e", ":">>

HundredWord == <<"1", "0", "0">>

GradeWord == <<"G", "r", "a", "d", "e", ":">>

Grades == {"A", "B", "C", "D", "E", "F"}

\* The match at position i of the pattern of line 111 (form "grade",
\* 'Health Score:\s*(\d+)\s*/\s*100\s*Grade:\s*([A-F])') or of line 113 (form
\* "paren", 'Health Score:\s*(\d+)/100\s*\(([A-F])\)').
HealthMatchAt(form, s, i) ==
    IF ~At(s, i, HealthWord) THEN [ok |-> FALSE]
    ELSE LET a == SkipSpace(s, i + Len(HealthWord))
             b == SkipDigits(s, a)
         IN  IF b = a THEN [ok |-> FALSE]
             ELSE IF form = "grade"
             THEN LET c == SkipSpace(s, b)
                      d == SkipSpace(s, c + 1)
                      e == SkipSpace(s, d + Len(HundredWord))
                      f == SkipSpace(s, e + Len(GradeWord))
                  IN  IF /\ c <= Len(s) /\ s[c] = "/"
                         /\ At(s, d, HundredWord)
                         /\ At(s, e, GradeWord)
                         /\ f <= Len(s) /\ s[f] \in Grades
                      THEN [ok |-> TRUE, digits |-> SubSeq(s, a, b - 1), grade |-> s[f]]
                      ELSE [ok |-> FALSE]
             ELSE LET e == SkipSpace(s, b + 1 + Len(HundredWord))
                  IN  IF /\ b <= Len(s) /\ s[b] = "/"
                         /\ At(s, b + 1, HundredWord)
                         /\ e + 2 <= Len(s)
                         /\ s[e] = "(" /\ s[e + 1] \in Grades /\ s[e + 2] = ")"
                      THEN [ok |-> TRUE, digits |-> SubSeq(s, a, b - 1), grade |-> s[e + 1]]
                      ELSE [ok |-> FALSE]

\* re.search: the leftmost match, or no match.
HealthSearch(form, s) ==
    LET at == {i \in 1..Len(s) : HealthMatchAt(form, s, i).ok}
    IN  IF at = {} THEN [ok |-> FALSE]
        ELSE HealthMatchAt(form, s, CHOOSE i \in at : \A k \in at : i <= k)

\* int(m.group(1)) of a run of decimal digits.
RECURSIVE IntOf(_)
IntOf(digits) ==
    IF digits = <<>> THEN 0
    ELSE 10 * IntOf(SubSeq(digits, 1, Len(digits) - 1))
         + (CHOOSE v \in 0..9 : ToString(v) = digits[Len(digits)])

\* An empty dictionary.
EmptyDict == <<>>

\* {"score": int(m.group(1)), "grade": m.group(2)}
HealthOf(m) == [score |-> IntOf(m.digits), grade |-> m.grade]

\* Lines 111-115: result["health"].
ExtractHealth(stdout) ==
    LET m1 == HealthSearch("grade", stdout)
        m == IF m1.ok THEN m1 ELSE HealthSearch("paren", stdout)
    IN  IF m.ok THEN HealthOf(m) ELSE EmptyDict

\* Lines 116-118: result["device_info"].
ExtractDevice(stdout) ==
    IF DeviceSearch(stdout) # <<>> THEN [device_id |-> DeviceSearch(stdout)]
    ELSE EmptyDict

\* return None
None == "None"

\* parse_session_results(sid): known is whether sessions holds sid, stdout the
\* session's stdout.  The list of report files and the fields the function
\* leaves empty are not part of the model.
parse_session_results(known, stdout) ==
    IF ~known THEN None
    ELSE [issues |-> ExtractIssues(stdout),
          health |-> ExtractHealth(stdout),
          device_info |-> ExtractDevice(stdout)]

\* A finding of the primary convention: #1 HIGH a\n
PiecePrimary == <<"#", "1", " ", "H", "I", "G", "H", " ", "a", "\n">>

\* A finding of the bracketed convention: [LOW] b\n
PieceBracketed == <<"[", "L", "O", "W", "]", " ", "b", "\n">>

\* A primary finding whose title is blank: #2 LOW \n
PieceBlankTitle == <<"#", "2", " ", "L", "O", "W", " ", "\n">>

\* A health line of the first form: Health Score: 87/100 Grade: B\n
PieceHealthGrade ==
    <<"H", "e", "a", "l", "t", "h", " ", "S", "c", "o", "r", "e", ":", " ",
      "8", "7", "/", "1", "0", "0", " ", "G", "r", "a", "d", "e", ":", " ",
      "B", "\n">>

\* A health line of the second form, its score over 100: Health Score: 250/100 (A)\n
PieceHealthParen ==
    <<"H", "e", "a", "l", "t", "h", " ", "S", "c", "o", "r", "e", ":", " ",
      "2", "5", "0", "/", "1", "0", "0", " ", "(", "A", ")", "\n">>

\* A device line: Device: X\n
PieceDevice == <<"D", "e", "v", "i", "c", "e", ":", " ", "X", "\n">>

\* Text of no convention: x
PieceOther == <<"x">>

\* The pieces a stdout of the model is put together from.
Pieces ==
    {PiecePrimary, PieceBracketed, PieceBlankTitle, PieceHealthGrade,
     PieceHealthParen, PieceDevice, PieceOther}

\* The texts of at most n pieces.
RECURSIVE TextsOf(_)
TextsOf(n) ==
    IF n = 0 THEN {<<>>}
    ELSE TextsOf(n - 1) \cup {t \o p : t \in TextsOf(n - 1), p \in Pieces}

Stdouts == TextsOf(MaxPieces)

ResultsCalls ==
    {[fn |-> "parse_session_results", known |-> TRUE, stdout |-> t] : t \in Stdouts}
    \cup {[fn |-> "parse_session_results", known |-> FALSE, stdout |-> <<>>]}

InitResults ==
    /\ ServerInit
    /\ call \in ResultsCalls
    /\ ret = NotReturned

RunResults ==
    /\ call.fn = "parse_session_results"
    /\ ~ret.done
    /\ ret' = [done |-> TRUE, value |-> parse_session_results(call.known, call.stdout)]
    /\ UNCHANGED <<serverVars, call>>

NextResults == RunResults

SpecResults == InitResults /\ [][NextResults]_vars

\* ------------------------------------------------- run_analyzer, on its own

\* p.returncode of an analyzer that ran to its end, among 0..255.
ExitCodes == {0, 1, 2, 124, 255}

\* The timeouts run_analyzer is called with (lines 272, 357, 379, 392).
Timeouts == {CheckTimeout, AnalyzeTimeout, FleetTimeout}

\* What one invocation can come to: the timeout expires, bash cannot be
\* started, or the analyzer exits with a code and what it wrote, which is any
\* text, the text of the timeout message included.
RunOutcomes(timeout) ==
    {[kind |-> "timeout"]}
    \cup {[kind |-> "launchfail", text |-> t] : t \in LaunchErrors}
    \cup {[kind |-> "exit", rc |-> rc, out |-> out, err |-> err] :
            rc \in ExitCodes, out \in {<<>>, OutPlain},
            err \in {<<>>, ErrText, TimeoutMsg(timeout)}}

\* run_analyzer(args, timeout) for one outcome of the invocation.
run_analyzer(timeout, outcome) ==
    CASE outcome.kind = "timeout" -> TimeoutResult(timeout)
      [] outcome.kind = "launchfail" -> LaunchFailResult(outcome.text)
      [] outcome.kind = "exit" -> ExitResult(outcome.rc, outcome.out, outcome.err)

\* The tuple run_analyzer returns.
Returned(r) == <<r.rc, r.out, r.err>>

RunCalls ==
    {[fn |-> "run_analyzer", timeout |-> t, outcome |-> o] :
        t \in Timeouts, o \in UNION {RunOutcomes(u) : u \in Timeouts}}

InitRun ==
    /\ ServerInit
    /\ call \in RunCalls
    /\ ret = NotReturned

RunAnalyzer ==
    /\ call.fn = "run_analyzer"
    /\ ~ret.done
    /\ ret' = [done |-> TRUE, value |-> Returned(run_analyzer(call.timeout, call.outcome))]
    /\ UNCHANGED <<serverVars, call>>

NextRun == RunAnalyzer

SpecRun == InitRun /\ [][NextRun]_vars

\* --------------------------------------------------------- load_signatures

\* The number of lines of a signature file, the header line apart.
MaxRows == 2

\* A line of a tab-separated file is the sequence of its cells, line.split("\t")
\* of the whole line; a cell is a word, "" when it is empty.
CommentCell == "#c"

\* line.strip(): the whitespace at both ends goes, and with it the empty
\* cells at both ends and their tabs.
RECURSIVE StripLine(_)
StripLine(cells) ==
    IF cells = <<>> THEN <<>>
    ELSE IF Head(cells) = "" THEN StripLine(Tail(cells))
    ELSE IF cells[Len(cells)] = "" THEN StripLine(SubSeq(cells, 1, Len(cells) - 1))
    ELSE cells

\* if not line or line.startswith("#")
SkippedLine(parts) == parts = <<>> \/ parts[1] = CommentCell

\* if len(parts) >= 6
FixedRowTaken(parts) == Len(parts) >= 6

\* The entry of lines 185-191.
FixedEntry(parts) ==
    [pattern |-> parts[1], component |-> parts[2], severity |-> parts[3],
     title |-> parts[4], root_cause |-> parts[5], fix |-> parts[6],
     kb_url |-> IF Len(parts) > 6 THEN parts[7] ELSE "",
     source |-> "signatures"]

\* The loop of lines 179-191 from line i on.
RECURSIVE LoadFixedFrom(_, _)
LoadFixedFrom(lines, i) ==
    IF i > Len(lines) THEN <<>>
    ELSE LET parts == StripLine(lines[i])
         IN  IF SkippedLine(parts) \/ ~FixedRowTaken(parts) THEN LoadFixedFrom(lines, i + 1)
             ELSE <<FixedEntry(parts)>> \o LoadFixedFrom(lines, i + 1)

\* col_map.get(name): the index, counted from 0, of the last cell of the
\* header that holds the name, or -1 for None.
ColIndex(header, name) ==
    LET at == {k \in 1..Len(header) : header[k] = name}
    IN  IF at = {} THEN -1 ELSE (CHOOSE k \in at : \A j \in at : j <= k) - 1

\* Mutant: no default, the empty text for every missing column.
ColWithoutDefault(header, parts, name, default) ==
    LET idx == ColIndex(header, name)
    IN  IF idx # -1 /\ idx < Len(parts) THEN parts[idx + 1] ELSE ""

\* col(name, default) of lines 203-207.
Col(header, parts, name, default) ==
    LET idx == ColIndex(header, name)
    IN  IF idx # -1 /\ idx < Len(parts) THEN parts[idx + 1] ELSE default

\* if len(parts) >= 4
RegistryRowTaken(parts) == Len(parts) >= 4

\* The entry of lines 209-221.
RegistryEntry(header, parts) ==
    [pattern |-> Col(header, parts, "name", ""),
     component |-> Col(header, parts, "module", ""),
     severity |-> Col(header, parts, "severity", "MEDIUM"),
     title |-> Col(header, parts, "description", ""),
     root_cause |-> Col(header, parts, "description", ""),
     fix |-> Col(header, parts, "troubleshootingSteps", ""),
     kb_url |-> "",
     source |-> "registry",
     module |-> Col(header, parts, "module", ""),
     errorType |-> Col(header, parts, "errorType", ""),
     onSiteRequired |-> Col(header, parts, "onSiteServiceRequired", "false")]

\* The loop of lines 195-221 from line i on; col_map is the header read so
\* far, <<>> while there is none.
RECURSIVE LoadRegistryFrom(_, _, _)
LoadRegistryFrom(lines, i, col_map) ==
    IF i > Len(lines) THEN <<>>
    ELSE LET parts == StripLine(lines[i])
         IN  IF SkippedLine(parts) THEN LoadRegistryFrom(lines, i + 1, col_map)
             ELSE IF col_map = <<>> THEN LoadRegistryFrom(lines, i + 1, parts)
             ELSE IF ~RegistryRowTaken(parts) THEN LoadRegistryFrom(lines, i + 1, col_map)
             ELSE <<RegistryEntry(col_map, parts)>> \o LoadRegistryFrom(lines, i + 1, col_map)

\* load_signatures(): each file is [exists, lines].
load_signatures(signatures_file, registry_file) ==
    (IF signatures_file.exists THEN LoadFixedFrom(signatures_file.lines, 1) ELSE <<>>)
    \o (IF registry_file.exists THEN LoadRegistryFrom(registry_file.lines, 1, <<>>) ELSE <<>>)

\* The lines of known_signatures.tsv in the model: a comment, rows of 5, 6
\* and 7 cells, and a row of 6 cells whose last cell is empty.
FixedLines ==
    { <<CommentCell>>,
      <<"p", "c", "HIGH", "t", "r">>,
      <<"p", "c", "HIGH", "t", "r", "f">>,
      <<"p", "c", "HIGH", "t", "r", "f", "u">>,
      <<"p", "c", "HIGH", "t", "r", "">> }

\* The headers of error_registry.tsv in the model: with and without a
\* severity column, in two orders.
RegistryHeaders ==
    { <<"name", "module", "severity", "description">>,
      <<"description", "name", "module", "errorType">>,
      <<"name", "module", "severity", "description", "troubleshootingSteps",
        "onSiteServiceRequired">> }

\* Its other lines: an empty line, a comment, rows of 3, 4 and 6 cells.
RegistryLines ==
    { <<>>, <<CommentCell>>,
      <<"n", "m", "LOW">>,
      <<"n", "m", "LOW", "d">>,
      <<"n", "m", "LOW", "d", "s", "true">> }

\* The sequences of at most n elements of a set.
RECURSIVE SeqsOf(_, _)
SeqsOf(S, n) ==
    IF n = 0 THEN {<<>>}
    ELSE SeqsOf(S, n - 1) \cup {Append(q, x) : q \in SeqsOf(S, n - 1), x \in S}

NoFile == [exists |-> FALSE, lines |-> <<>>]

SignaturesFiles ==
    {NoFile} \cup {[exists |-> TRUE, lines |-> l] : l \in SeqsOf(FixedLines, MaxRows)}

RegistryFiles ==
    {NoFile, [exists |-> TRUE, lines |-> <<>>]}
    \cup {[exists |-> TRUE, lines |-> <<h>> \o l] :
            h \in RegistryHeaders, l \in SeqsOf(RegistryLines, MaxRows)}

SignatureCalls ==
    {[fn |-> "load_signatures", signatures_file |-> f, registry_file |-> g] :
        f \in SignaturesFiles, g \in RegistryFiles}

InitSignatures ==
    /\ ServerInit
    /\ call \in SignatureCalls
    /\ ret = NotReturned

LoadSignatures ==
    /\ call.fn = "load_signatures"
    /\ ~ret.done
    /\ ret' = [done |-> TRUE,
               value |-> load_signatures(call.signatures_file, call.registry_file)]
    /\ UNCHANGED <<serverVars, call>>

NextSignatures == LoadSignatures

SpecSignatures == InitSignatures /\ [][NextSignatures]_vars

\* --------------------------------------------------------- parse_multipart

\* The number of bytes of a payload.
MaxData == 2

\* A byte above \x7f is written "HI".
NonAscii == {"HI"}

CRLF == <<"CR", "\n">>

\* The boundary of the body, the one the Content-Type of the request names
\* (lines 35-38); no payload of the model holds it.
Boundary == <<"B">>

Dashes == <<"-", "-">>

DispositionHeader ==
    <<"C", "o", "n", "t", "e", "n", "t", "-", "D", "i", "s", "p", "o", "s",
      "i", "t", "i", "o", "n", ":", " ", "f", "o", "r", "m", "-", "d", "a",
      "t", "a">>

NameParam == <<";", " ", "n", "a", "m", "e", "=", "\"">>

FilenameParam ==
    <<";", " ", "f", "i", "l", "e", "n", "a", "m", "e", "=", "\"">>

TypeHeader ==
    <<"C", "o", "n", "t", "e", "n", "t", "-", "T", "y", "p", "e", ":", " ",
      "a", "/", "b">>

Quote == <<"\"">>

\* None for a filename: the field is not a file field.
NoFilename == <<"None">>

\* A field set as multipart/form-data, the way a browser writes it: for each
\* field the delimiter line, the Content-Disposition header with the name and,
\* for a file field, the filename between double quotes, a Content-Type
\* header for a file field, an empty line, the payload and CRLF; then the
\* closing delimiter.  This is the body rfile.read(content_length) returns.
RECURSIVE EncodeFields(_)
EncodeFields(fields) ==
    IF fields = <<>> THEN Dashes \o Boundary \o Dashes \o CRLF
    ELSE LET f == Head(fields)
         IN  Dashes \o Boundary \o CRLF
             \o DispositionHeader \o NameParam \o f.name \o Quote
             \o (IF f.filename = NoFilename THEN <<>>
                 ELSE FilenameParam \o f.filename \o Quote \o CRLF \o TypeHeader)
             \o CRLF \o CRLF \o f.data \o CRLF
             \o EncodeFields(Tail(fields))

\* The last position of the line that starts at i: a line ends with \r\n, \r
\* or \n, or with the text.
RECURSIVE LineEnd(_, _)
LineEnd(t, i) ==
    IF i >= Len(t) \/ t[i] = "\n" THEN i
    ELSE IF t[i] = "CR" THEN (IF t[i + 1] = "\n" THEN i + 1 ELSE i)
    ELSE LineEnd(t, i + 1)

\* The lines of a text from position i on, each with its line end, as the
\* feed parser of the email package cuts them.
RECURSIVE SplitLines(_, _)
SplitLines(t, i) ==
    IF i > Len(t) THEN <<>>
    ELSE <<SubSeq(t, i, LineEnd(t, i))>> \o SplitLines(t, LineEnd(t, i) + 1)

\* A text without the line end at its end, if it has one.
Chomp(t) ==
    IF Len(t) >= 2 /\ SubSeq(t, Len(t) - 1, Len(t)) = CRLF THEN SubSeq(t, 1, Len(t) - 2)
    ELSE IF Len(t) >= 1 /\ t[Len(t)] \in {"CR", "\n"} THEN SubSeq(t, 1, Len(t) - 1)
    ELSE t

\* A text without the blanks and tabs at its end.
RECURSIVE TrimRight(_)
TrimRight(t) ==
    IF t # <<>> /\ t[Len(t)] \in {" ", "\t"} THEN TrimRight(SubSeq(t, 1, Len(t) - 1))
    ELSE t

\* What a line is to the parser of a multipart body: the delimiter before a
\* part ("sep"), the closing delimiter ("end"), or a line of text ("none").
DelimiterKind(line) ==
    LET t == TrimRight(Chomp(line))
    IN  IF t = Dashes \o Boundary THEN "sep"
        ELSE IF t = Dashes \o Boundary \o Dashes THEN "end"
        ELSE "none"

\* The position of the ':' of a header line, or 0 when the line is none.
HeaderColon(line) ==
    LET at == {k \in 1..Len(line) : line[k] = ":"}
    IN  IF at = {} THEN 0
        ELSE LET k == CHOOSE a \in at : \A b \in at : a <= b
             IN  IF \A j \in 1..(k - 1) : line[j] \notin (Whitespace \cup NonAscii)
                 THEN k ELSE 0

\* The headers of a part from line i on: the header lines up to the first
\* line that is none, and the line the payload starts at (an empty line after
\* the headers is not part of the payload).
RECURSIVE PartHeaders(_, _, _)
PartHeaders(lines, i, acc) ==
    IF i > Len(lines) THEN [headers |-> acc, body |-> i]
    ELSE IF Chomp(lines[i]) = <<>> THEN [headers |-> acc, body |-> i + 1]
    ELSE IF HeaderColon(lines[i]) = 0 THEN [headers |-> acc, body |-> i]
    ELSE LET k == HeaderColon(lines[i])
             value == Chomp(lines[i])
             from == SkipSpace(value, k + 1)
         IN  PartHeaders(lines, i + 1,
                 Append(acc, [name |-> SubSeq(lines[i], 1, k - 1),
                              value |-> SubSeq(value, from, Len(value))]))

\* The first line at or after i that is a delimiter, or Len(lines) + 1.
RECURSIVE NextDelimiter(_, _)
NextDelimiter(lines, i) ==
    IF i > Len(lines) \/ DelimiterKind(lines[i]) # "none" THEN i
    ELSE NextDelimiter(lines, i + 1)

\* The concatenation of the lines i..j.
RECURSIVE JoinLines(_, _, _)
JoinLines(lines, i, j) ==
    IF i > j THEN <<>> ELSE lines[i] \o JoinLines(lines, i + 1, j)

\* The parts of a multipart body whose delimiter line is line i: each with
\* its headers and its payload, the payload without the line end that
\* precedes the next delimiter.
RECURSIVE PartsFrom(_, _)
PartsFrom(lines, i) ==
    IF i > Len(lines) \/ DelimiterKind(lines[i]) = "end" THEN <<>>
    ELSE LET h == PartHeaders(lines, i + 1, <<>>)
             d == NextDelimiter(lines, h.body)
         IN  <<[headers |-> h.headers,
                payload |-> Chomp(JoinLines(lines, h.body, d - 1))]>>
             \o PartsFrom(lines, d)

\* email.message_from_bytes(fake_msg), then msg.walk() without the root
\* message, which has no Content-Disposition: the parts of the body.
MessageParts(raw) ==
    LET lines == SplitLines(raw, 1)
    IN  PartsFrom(lines, NextDelimiter(lines, 1))

\* part.get("Content-Disposition", ""): the value of the first header of
\* that name, <<>> when there is none.
DispositionOf(part) ==
    LET at == {k \in 1..Len(part.headers) :
                  part.headers[k].name = SubSeq(DispositionHeader, 1, 19)}
    IN  IF at = {} THEN <<>>
        ELSE part.headers[CHOOSE a \in at : \A b \in at : a <= b].value

\* A header value with a byte above \x7f is handed out as an
\* email.header.Header and not as a str.
IsHeaderObject(value) == \E k \in 1..Len(value) : value[k] \in NonAscii

\* re.search of key"([^"]<rep>)" in cd, rep being + (atLeast = 1) or *
\* (atLeast = 0): group 1 of the leftmost match, or NoFilename for no match.
QuotedParam(cd, key, atLeast) ==
    LET closing(i) == {k \in (i + Len(key))..Len(cd) : cd[k] = "\""}
        first(i) == CHOOSE a \in closing(i) : \A b \in closing(i) : a <= b
        at == {i \in 1..Len(cd) :
                  /\ At(cd, i, key)
                  /\ closing(i) # {}
                  /\ first(i) - (i + Len(key)) >= atLeast}
    IN  IF at = {} THEN NoFilename
        ELSE LET i == CHOOSE a \in at : \A b \in at : a <= b
             IN  SubSeq(cd, i + Len(key), first(i) - 1)

\* What the call comes to: the dictionary it returns, or the TypeError
\* re.search raises when cd is not a str.
Returns(fields) == [raised |-> FALSE, fields |-> fields]

RaisedTypeError == [raised |-> TRUE, fields |-> <<>>]

\* The loop of lines 43-56 over the parts from part k on.
RECURSIVE WalkParts(_, _, _)
WalkParts(parts, k, acc) ==
    IF k > Len(parts) THEN Returns(acc)
    ELSE LET cd == DispositionOf(parts[k])
             nm == QuotedParam(cd, SubSeq(NameParam, 3, 8), 1)
             fn == QuotedParam(cd, SubSeq(FilenameParam, 3, 12), 0)
         IN  IF cd = <<>> THEN WalkParts(parts, k + 1, acc)
             ELSE IF IsHeaderObject(cd) THEN RaisedTypeError
             ELSE IF nm = NoFilename THEN WalkParts(parts, k + 1, acc)
             ELSE WalkParts(parts, k + 1,
                     (nm :> [filename |-> fn, data |-> parts[k].payload]) @@ acc)

\* parse_multipart(rfile, content_type, content_length) for a content type
\* that names the boundary: raw is rfile.read(content_length).
parse_multipart(raw) == WalkParts(MessageParts(raw), 1, <<>>)

\* The payloads of the model: every text of at most MaxData bytes, line ends
\* and dashes among them.
DataBytes == {"a", "CR", "\n", "-"}

Payloads == SeqsOf(DataBytes, MaxData)

\* The filenames of a file field: plain, empty, with a double quote, with a
\* byte above \x7f.
Filenames == { <<"a">>, <<>>, <<"a", "\"", "b">>, <<"HI", "a">> }

\* The field sets: a file field, alone or followed by a text field.
FieldSets ==
    LET files == {[name |-> <<"f">>, filename |-> fn, data |-> d] :
                     fn \in Filenames, d \in Payloads}
        texts == {[name |-> <<"n">>, filename |-> NoFilename, data |-> d] :
                     d \in {<<>>, <<"a">>}}
    IN  {<<f>> : f \in files} \cup {<<f, t>> : f \in files, t \in texts}

MultipartCalls ==
    {[fn |-> "parse_multipart", fields |-> fs, raw |-> EncodeFields(fs)] : fs \in FieldSets}

InitMultipart ==
    /\ ServerInit
    /\ call \in MultipartCalls
    /\ ret = NotReturned

ParseMultipart ==
    /\ call.fn = "parse_multipart"
    /\ ~ret.done
    /\ ret' = [done |-> TRUE, value |-> parse_multipart(call.raw)]
    /\ UNCHANGED <<serverVars, call>>

NextMultipart == ParseMultipart

SpecMultipart == InitMultipart /\ [][NextMultipart]_vars

\* ------------------------------------------------------------- the claims

\* The route of the request a step belongs to: the one being served, or the
\* one the step answers or starts.
StepRoute == IF pc = "idle" THEN resp'.req.route ELSE cur.req.route

LifecycleSteps ==
    {<<"loaded", "analyzing">>, <<"analyzing", "done">>, <<"analyzing", "error">>}

\* C1: every change of a session's lifecycle state is one of loaded ->
\* analyzing, analyzing -> done, analyzing -> error, and a session is created
\* in state loaded (a step that creates a session under an identifier in use
\* starts a new session and is not a change of the old one's state).
C1_LifecycleOrder ==
    [][\A sid \in DOMAIN sessions' :
          IF sid \in DOMAIN sessions /\ ~(created' # created /\ resp'.req.sid = sid)
          THEN \/ sessions'[sid].state = sessions[sid].state
               \/ <<sessions[sid].state, sessions'[sid].state>> \in LifecycleSteps
          ELSE sessions'[sid].state = "loaded"]_vars

\* C2: N session creations yield N distinct entries of the session store: no
\* two creations share an identifier, and with it a working directory and a
\* reports directory.
C2_DistinctSessions ==
    /\ Cardinality(DOMAIN sessions) = created
    /\ \A a, b \in DOMAIN sessions :
          a # b => /\ sessions[a].work_dir # sessions[b].work_dir
                   /\ sessions[a].reports_dir # sessions[b].reports_dir

\* C3: every step of a GET request (the analyzer check included) and of POST
\* /api/compare and /api/fleet leaves every session record unchanged; no step
\* removes a session from the store; a new identifier enters the store only
\* in a step of an upload.
C3_ReadOnlyRequests ==
    [][/\ StepRoute \in {"GET", "check", "compare", "fleet"} => sessions' = sessions
       /\ DOMAIN sessions \subseteq DOMAIN sessions'
       /\ Cardinality(DOMAIN sessions') >= Cardinality(DOMAIN sessions)
       /\ DOMAIN sessions' # DOMAIN sessions => StepRoute = "upload"]_vars

\* A compare or fleet run with sessions in the store has been answered.
C3_Witness ==
    /\ pc = "idle"
    /\ resp.req.route \in {"compare", "fleet"}
    /\ resp.code = 200
    /\ \E sid \in DOMAIN sessions : sessions[sid].state = "done"

\* C4: once two analyze requests on one session have both finished, the
\* session's state, analysis mode, stdout, stderr and device id are those of
\* one and the same analysis.  stdout is always that of the analysis that
\* finished last, so that analysis is the only candidate.
C4_FieldsFromOneAnalysis ==
    \A sid \in DOMAIN sessions :
        (pc = "idle" /\ last[sid].n = 2) =>
            /\ sessions[sid].state = last[sid].state
            /\ sessions[sid].analysis_mode = last[sid].mode
            /\ sessions[sid].stdout = last[sid].stdout
            /\ sessions[sid].stderr = last[sid].stderr
            /\ sessions[sid].device_id = last[sid].device_id

\* C5: a run of the analyzer that exceeds its timeout returns exit code 124,
\* empty stdout and the timeout message in stderr, and once run_analyzer has
\* returned no analyzer child is running.
C5_TimeoutSentinel ==
    /\ result.how = "timeout" =>
          /\ result.rc = 124
          /\ result.out = <<>>
          /\ result.err = TimeoutMsg(cur.timeout)
          /\ Len(result.err) > 0
    /\ pc \in {"idle", "returned", "respond"} => child = 0

\* An analysis has timed out and run_analyzer has returned.
C5_Witness ==
    /\ pc = "returned"
    /\ result.how = "timeout"
    /\ cur.kind = "analyze"

\* C6: an analyze request whose analyzer timed out or could not be launched
\* is answered 200 with ok false, a non-zero exit code and the error text.
C6_FailureIndicators ==
    (pc = "idle" /\ resp.req.route = "analyze" /\ resp.how \in {"timeout", "launchfail"}) =>
        /\ resp.code = 200
        /\ resp.ok = FALSE
        /\ resp.exit_code # 0
        /\ resp.errors # <<>>

\* C7: a request whose handler raised is answered with a JSON error response.
C7_FaultsAnsweredAsJson ==
    resp.fault => (resp.format = "json" /\ resp.code >= 400)

\* C8: an analyze request naming an unknown session is answered 404 and an
\* upload with no file field, no path or a path that does not exist is
\* answered 400; neither changes the session store or the reports, and
\* neither starts the analyzer.
C8_RejectedRequestsChangeNothing ==
    [][(/\ pc = "idle"
        /\ \/ /\ resp'.req.route = "analyze"
              /\ resp'.req.arg # "invalid"
              /\ resp'.req.sid \notin DOMAIN sessions
           \/ /\ resp'.req.route = "upload"
              /\ resp'.req.arg \in {"absent", "no-path", "missing-path"})
       => /\ resp'.code = IF resp'.req.route = "analyze" THEN 404 ELSE 400
          /\ resp'.format = "json"
          /\ sessions' = sessions
          /\ reports' = reports
          /\ created' = created
          /\ pc' = "idle"
          /\ child' = child]_vars

\* An analyze request for an unknown session has been refused while the
\* store holds a session.
C8_WitnessAnalyze ==
    /\ resp.req.route = "analyze"
    /\ resp.code = 404
    /\ DOMAIN sessions # {}
    /\ resp.req.sid \notin DOMAIN sessions


\* C9 as claimed: the number of hits search_logs returns never exceeds
\* max_results, whatever integer max_results is.
C9_HitsWithinMax ==
    (ret.done /\ call.fn = "search_logs") => Len(ret.value) <= call.q.max

\* C9 as amended: the number of hits never exceeds max_results when
\* max_results is at least 1, and never exceeds 1 when it is 0 or negative.
C9_HitsWithinMaxOrOne ==
    (ret.done /\ call.fn = "search_logs") =>
        Len(ret.value) <= (IF call.q.max >= 1 THEN call.q.max ELSE 1)

\* A search without filters over two files of two lines each, cut at two hits.
C9_Witness ==
    /\ ret.done /\ call.fn = "search_logs" /\ call.known
    /\ call.q.max = 2
    /\ call.q.pattern = <<>> /\ call.q.severity = "" /\ call.q.component = <<>>
    /\ call.parsed.exists
    /\ Cardinality({n \in GlobParsed(call.parsed.files) :
                       Len(call.parsed.files[n]) = 2}) >= 2
    /\ Len(ret.value) = 2

\* Whether a list of hits is the single placeholder: one entry, which names
\* no file.
IsPlaceholder(hits) == Len(hits) = 1 /\ DOMAIN hits[1] = {"line"}

\* C10 as claimed: a search of a known session returns exactly the
\* placeholder hit when the parsed directory is absent and when it holds no
\* .parsed file.
C10_PlaceholderBeforeParsedLogs ==
    (/\ ret.done /\ call.fn = "search_logs" /\ call.known
     /\ (~call.parsed.exists \/ GlobParsed(call.parsed.files) = {}))
    => IsPlaceholder(ret.value)

\* C10 as amended: a search of a known session returns exactly the
\* placeholder hit when the parsed directory is absent, for every pattern,
\* filter and max_results; when the directory exists and holds no .parsed
\* file it returns the empty list.
C10_PlaceholderIffDirectoryAbsent ==
    (ret.done /\ call.fn = "search_logs" /\ call.known) =>
        /\ ~call.parsed.exists => IsPlaceholder(ret.value)
        /\ (call.parsed.exists /\ GlobParsed(call.parsed.files) = {}) => ret.value = <<>>
        /\ call.parsed.exists => ~IsPlaceholder(ret.value)

\* A search with a pattern, both filters and max_results 0 of a session whose
\* parsed directory is absent has returned.
C10_Witness ==
    /\ ret.done /\ call.fn = "search_logs" /\ call.known
    /\ ~call.parsed.exists
    /\ call.q.max = 0
    /\ call.q.pattern # <<>> /\ call.q.severity # "" /\ call.q.component # <<>>
    /\ IsPlaceholder(ret.value)

\* The first n elements of a sequence (none when n is 0 or negative).
Take(s, n) == SubSeq(s, 1, IF n < 0 THEN 0 ELSE IF n > Len(s) THEN Len(s) ELSE n)

\* The passing lines of one file as hits, by line number.
PassingHits(name, files, q) ==
    LET lines == SelectSeq(GrepFrom(q.pattern, files[name], 1),
                           LAMBDA l : PassesFilters(l, q))
    IN  [i \in 1..Len(lines) |-> [file |-> name, line |-> Take(lines[i], LineLimit)]]

\* The full list of passing lines, by file name and then by line number.
RECURSIVE AllPassingFrom(_, _, _, _)
AllPassingFrom(names, k, files, q) ==
    IF k > Len(names) THEN <<>>
    ELSE PassingHits(names[k], files, q) \o AllPassingFrom(names, k + 1, files, q)

AllPassing(files, q) == AllPassingFrom(SortedNames(GlobParsed(files)), 1, files, q)

\* C11: for a set of parsed files and a query, the hits search_logs returns
\* are exactly the first max_results elements of the full list of passing
\* lines ordered by file name and then by line number, so that every search
\* of the same files with the same query returns the same list.
C11_FirstMaxResults ==
    (ret.done /\ call.fn = "search_logs" /\ call.known /\ call.parsed.exists) =>
        ret.value = Take(AllPassing(call.parsed.files, call.q), call.q.max)

\* C12: the issues extracted from a stdout are, in order of appearance, the
\* matches of the primary convention when there is at least one, and otherwise
\* the matches of the bracketed convention; never findings of both.
C12_PrimaryOrBracketed ==
    (ret.done /\ call.fn = "parse_session_results" /\ call.known) =>
        ret.value.issues = (IF FindIssues("primary", call.stdout, 1) # <<>>
                            THEN FindIssues("primary", call.stdout, 1)
                            ELSE FindIssues("bracketed", call.stdout, 1))

\* The issues of a stdout with findings of both conventions have been
\* extracted.
C12_Witness ==
    /\ ret.done /\ call.fn = "parse_session_results" /\ call.known
    /\ FindIssues("primary", call.stdout, 1) # <<>>
    /\ FindIssues("bracketed", call.stdout, 1) # <<>>
    /\ Len(ret.value.issues) = 1

\* C13: a health summary that is returned has an integer score in 0..100 and
\* a grade among A..F, whatever the stdout.
C13_HealthInRange ==
    (/\ ret.done /\ call.fn = "parse_session_results" /\ call.known
     /\ ret.value.health # EmptyDict)
    => /\ ret.value.health.score \in 0..100
       /\ ret.value.health.grade \in Grades

\* The control characters of the model that are not printable and are
\* neither newline nor tab.
ControlChars == {"NUL", "BEL", "ESC", "DEL", "CR"}

\* Whether a text holds neither an ANSI escape sequence nor such a control
\* character.
Normalized(s) ==
    \A i \in 1..Len(s) : s[i] \notin ControlChars /\ CsiMatchLen(s, i) = 0

\* C14: the stdout and stderr stored in a session and the output and errors
\* of every response hold no ANSI escape sequence and no control character
\* other than newline and tab.
C14_OutputNormalized ==
    /\ \A sid \in DOMAIN sessions :
          Normalized(sessions[sid].stdout) /\ Normalized(sessions[sid].stderr)
    /\ Normalized(resp.output) /\ Normalized(resp.errors)

\* C15: what run_analyzer returns for an analyzer that ran to its end, with
\* whatever exit code, differs from what it returns for a timeout, so that a
\* caller can tell the two apart.
C15_SentinelDistinct ==
    (ret.done /\ call.fn = "run_analyzer" /\ call.outcome.kind = "exit") =>
        ret.value # Returned(TimeoutResult(call.timeout))

\* The rows of a signature file: its lines that are neither empty nor
\* comments, each as the sequence of its columns (the cells of the line
\* without the whitespace around it).
Rows(file) ==
    IF ~file.exists THEN <<>>
    ELSE SelectSeq([i \in 1..Len(file.lines) |-> StripLine(file.lines[i])],
                   LAMBDA r : r # <<>> /\ r[1] # CommentCell)

\* The rows that are not skipped: 6 columns or more in the fixed-column
\* file, 4 or more after the header in the header-driven file.
ValidFixedRows(file) == SelectSeq(Rows(file), LAMBDA r : Len(r) >= 6)

ValidRegistryRows(file) ==
    IF Rows(file) = <<>> THEN <<>>
    ELSE SelectSeq(Tail(Rows(file)), LAMBDA r : Len(r) >= 4)

\* The fields of a header-driven entry, each with the column it is named by
\* and its declared default.
NamedColumns ==
    { <<"pattern", "name", "">>, <<"component", "module", "">>,
      <<"severity", "severity", "MEDIUM">>, <<"title", "description", "">>,
      <<"root_cause", "description", "">>, <<"fix", "troubleshootingSteps", "">>,
      <<"module", "module", "">>, <<"errorType", "errorType", "">>,
      <<"onSiteRequired", "onSiteServiceRequired", "false">> }

\* The value of a named column of a row: the default when the header does not
\* name the column or the row ends before it.
NamedValue(header, row, name, default) ==
    IF \E k \in 1..Len(header) : header[k] = name /\ k <= Len(row)
    THEN row[CHOOSE k \in 1..Len(header) : header[k] = name /\ k <= Len(row)]
    ELSE default

C17_MultipartRoundTrip ==
    (ret.done /\ call.fn = "parse_multipart") =>
        /\ ~ret.value.raised
        /\ DOMAIN ret.value.fields = {call.fields[k].name : k \in 1..Len(call.fields)}
        /\ \A k \in 1..Len(call.fields) :
              /\ ret.value.fields[call.fields[k].name].filename = call.fields[k].filename
              /\ ret.value.fields[call.fields[k].name].data = call.fields[k].data

\* C18: a session in state analyzing is eventually in state done or error
\* with its analyze request answered, whether the analyzer exits, runs into
\* the timeout or cannot be launched.
C18_AnalysisCompletes ==
    \A sid \in SidSpace :
        (sid \in DOMAIN sessions /\ sessions[sid].state = "analyzing")
        ~> (/\ pc = "idle"
            /\ resp.req.route = "analyze" /\ resp.req.sid = sid /\ resp.code = 200
            /\ sessions[sid].state \in {"done", "error"})

\* An analyze request whose analyzer ran into the timeout has been answered,
\* the session in state error.
C18_Witness ==
    /\ pc = "idle"
    /\ resp.req.route = "analyze" /\ resp.code = 200 /\ resp.how = "timeout"
    /\ resp.req.sid \in DOMAIN sessions
    /\ sessions[resp.req.sid].state = "error"

\* C19: while a session is in state analyzing, a status or sessions request
\* and an info request for that session can be served at once, without
\* waiting for the analyzer.
C19_ServedDuringAnalysis ==
    \A sid \in DOMAIN sessions :
        sessions[sid].state = "analyzing" =>
            /\ ENABLED (\E r \in {"status", "sessions"} : GetPlain(r))
            /\ ENABLED GetSession(sid, "info", "")

\* C20: when an analyze request has been answered, the session is in state
\* done if the exit code of the analyzer was 0 and in state error if it was
\* not, whatever the reports directory holds.
C20_StateFollowsExitCode ==
    (/\ pc = "idle"
     /\ resp.req.route = "analyze" /\ resp.code = 200 /\ resp.format = "json")
    => sessions[resp.req.sid].state = (IF resp.exit_code = 0 THEN "done" ELSE "error")

\* C21: whenever no request is being handled, the device identifier stored in
\* every session equals the one the results request extracts from the session's
\* stored stdout, and is empty when that stdout has no device line.
C21_DeviceMatchesStdout ==
    pc = "idle" =>
        \A sid \in DOMAIN sessions :
            sessions[sid].device_id = DeviceSearch(sessions[sid].stdout)

====
